---- MODULE Spec2Model ----
(***************************************************************************)
(* A model of amcat/tools/queryparser.py: the lucene-style query parser    *)
(* (a pyparsing operatorPrecedence grammar with two parse actions) and the *)
(* compiler of its AST to the elastic DSL.                                 *)
(*                                                                         *)
(* A query string is modelled as the sequence of its lexical tokens: words *)
(* (with an optional field prefix), the keywords AND, OR, NOT, the         *)
(* proximity operator W/N, parentheses and quoted phrases (with an         *)
(* optional ~N).  Python strings are sequences of one-character strings,   *)
(* so that the wildcard tests of the code are computed, not assumed.       *)
(* A keyword or W/N standing where a term is expected is read as a word,   *)
(* as Word(LETTERS) does.  Tokens are separated by white space, no word    *)
(* begins with a keyword, and a quoted phrase is not empty.                *)
(***************************************************************************)
EXTENDS Integers, Sequences, FiniteSets, TLC

VARIABLES grammar, pc, call, tree, dsl, dsl2, tpc, heap, got, history

vars == <<grammar, pc, call, tree, dsl, dsl2, tpc, heap, got, history>>

\* the state of one caller of parse, and the state of the threads that call
\* get_grammar concurrently
parseVars == <<pc, call, tree, dsl, dsl2, history>>
threadVars == <<tpc, heap, got>>

(***************************************************************************)
(* Bounds of the model.                                                    *)
(***************************************************************************)
MaxLen == 4          \* tokens of a query over the core alphabet
MaxBody == 3         \* tokens of the body of a quoted phrase
MaxSpanTerms == 2    \* operands handed to the Span constructor directly
MaxOperands == 4     \* operands of a chain of operators without parentheses
MaxThreads == 3      \* threads that call get_grammar concurrently
MaxInner == 3        \* tokens of an expression put in redundant parentheses

(***************************************************************************)
(* Python values.                                                          *)
(***************************************************************************)
None == "<None>"
Truthy(v) == v # None /\ v # ""

RECURSIVE Replace(_, _, _)
\* unicode.replace(old, new) for one-character old and new
Replace(text, old, new) ==
    IF text = <<>> THEN <<>>
    ELSE <<IF Head(text) = old THEN new ELSE Head(text)>>
             \o Replace(Tail(text), old, new)

Contains(text, c) == \E i \in 1..Len(text) : text[i] = c
EndsWith(text, c) == Len(text) > 0 /\ text[Len(text)] = c
ButLast(text) == IF Len(text) = 0 THEN <<>> ELSE SubSeq(text, 1, Len(text) - 1)

(***************************************************************************)
(* The lexical tokens of a query string.                                   *)
(***************************************************************************)
Word(text, field) ==
    [typ |-> "word", text |-> text, field |-> field, n |-> <<>>, body |-> <<>>]
Keyword(k) ==
    [typ |-> k, text |-> <<>>, field |-> "", n |-> <<>>, body |-> <<>>]
Prox(n) ==
    [typ |-> "W/", text |-> <<>>, field |-> "", n |-> n, body |-> <<>>]
Phrase(body, field, n) ==
    [typ |-> "quote", text |-> <<>>, field |-> field, n |-> n, body |-> body]

tAND == Keyword("AND")
tOR == Keyword("OR")
tNOT == Keyword("NOT")
LPAR == Keyword("(")
RPAR == Keyword(")")

\* The characters of a token as written in the query string.
TokChars(t) ==
    CASE t.typ = "word" ->
           (IF t.field = "" THEN <<>> ELSE <<t.field, ":">>) \o t.text
      [] t.typ = "AND" -> <<"A", "N", "D">>
      [] t.typ = "OR" -> <<"O", "R">>
      [] t.typ = "NOT" -> <<"N", "O", "T">>
      [] t.typ = "W/" -> <<"W", "/">> \o t.n
      [] t.typ = "(" -> <<"(">>
      [] t.typ = ")" -> <<")">>
      [] OTHER -> <<>>

RECURSIVE JoinChars(_)
\* The text between the quotes: the body's tokens separated by one space.
JoinChars(body) ==
    IF body = <<>> THEN <<>>
    ELSE IF Len(body) = 1 THEN TokChars(body[1])
    ELSE TokChars(body[1]) \o <<" ">> \o JoinChars(Tail(body))

(***************************************************************************)
(* The AST classes.                                                        *)
(***************************************************************************)
NodeKinds == {"Term", "Quote", "Boolean", "Span"}
IsNode(v) == v.kind \in NodeKinds
IsBoolean(v) == v.kind \in {"Boolean", "Span"}     \* Span subclasses Boolean

\* FieldTerm.qfield
qfield(node) == IF Truthy(node.field) THEN node.field ELSE "_all"

\* a mutant of Term: the text is kept as written
Term_keeps_text(text, field) ==
    [kind |-> "Term", text |-> text, field |-> field]

\* BaseTerm.__init__ as called for Term
Term(text, field) ==
    [kind |-> "Term", text |-> Replace(text, "!", "*"), field |-> field]

\* a mutant of Quote: the field prefix of the phrase is dropped
Quote_no_field(text, field) ==
    [kind |-> "Quote", text |-> Replace(text, "!", "*"), field |-> None]

\* BaseTerm.__init__ as called for Quote
Quote(text, field) ==
    [kind |-> "Quote", text |-> Replace(text, "!", "*"), field |-> field]

\* Boolean.__init__
Boolean(operator, terms, implicit) ==
    [kind |-> "Boolean", operator |-> operator, terms |-> terms,
     implicit |-> implicit]

\* A Python value that is a unicode string, where the model has to tell it
\* from a value of another type (a node, an int).
Unicode(text) == [kind |-> "unicode", text |-> text]

\* Iterating a Python unicode string yields its one-character strings.
PyIter(text) == [i \in 1..Len(text) |-> Unicode(<<text[i]>>)]

Returned(v) == [exc |-> "", value |-> v]
Raised(e) == [exc |-> e, value |-> None]

RECURSIVE check_span_from(_, _, _, _, _)

\* a mutant of check_span_inner: the OR groups of an OR group are walked too
check_span_inner_allow(terms) == check_span_from(terms, 1, None, TRUE, <<>>)

\* the call _check_span(term.terms, allow_boolean = False) for an OR operand
check_span_inner(terms) == check_span_from(terms, 1, None, FALSE, <<>>)

\* a mutant of check_span_from: a Quote passes like a Term
check_span_from_quote(terms, i, f, allow_boolean, done) ==
    IF i > Len(terms) THEN Returned([f |-> f, terms |-> done])
    ELSE
      LET term == terms[i]
          inner == check_span_inner(term.terms)
          isTerm == term.kind \in {"Term", "Quote"}
          isOr == allow_boolean /\ IsBoolean(term) /\ term.operator = "OR"
          fld == IF isTerm THEN term.field ELSE inner.value.f
          seen == IF isTerm THEN [term EXCEPT !.field = None]
                  ELSE [term EXCEPT !.terms = inner.value.terms]
      IN  IF ~isTerm /\ ~isOr THEN Raised("ParseError")
          ELSE IF ~isTerm /\ inner.exc # "" THEN inner
          ELSE IF Truthy(fld) /\ Truthy(f) /\ f # fld THEN Raised("ParseError")
          ELSE check_span_from(terms, i + 1,
                               IF Truthy(fld) /\ ~Truthy(f) THEN fld ELSE f,
                               allow_boolean, Append(done, seen))

\* The loop of _check_span from the i-th term on; f is the field found so far
\* and done the terms already visited (a visited Term has lost its field).
check_span_from(terms, i, f, allow_boolean, done) ==
    IF i > Len(terms) THEN Returned([f |-> f, terms |-> done])
    ELSE
      LET term == terms[i]
          inner == check_span_inner(term.terms)
          isTerm == term.kind = "Term"
          isOr == allow_boolean /\ IsBoolean(term) /\ term.operator = "OR"
          fld == IF isTerm THEN term.field ELSE inner.value.f
          seen == IF isTerm THEN [term EXCEPT !.field = None]
                  ELSE [term EXCEPT !.terms = inner.value.terms]
      IN  IF ~isTerm /\ ~isOr THEN Raised("ParseError")
          ELSE IF ~isTerm /\ inner.exc # "" THEN inner
          ELSE IF Truthy(fld) /\ Truthy(f) /\ f # fld THEN Raised("ParseError")
          ELSE check_span_from(terms, i + 1,
                               IF Truthy(fld) /\ ~Truthy(f) THEN fld ELSE f,
                               allow_boolean, Append(done, seen))

\* a mutant of _check_span: the field handed to the Span is not compared
_check_span_ignores_field(terms, field, allow_boolean) ==
    check_span_from(terms, 1, None, allow_boolean, <<>>)

_check_span(terms, field, allow_boolean) ==
    check_span_from(terms, 1, field, allow_boolean, <<>>)

\* Span.__init__
Span(terms, slop, field, in_order) ==
    LET chk == _check_span(terms, field, TRUE)
    IN  IF chk.exc # "" THEN chk
        ELSE Returned([kind |-> "Span", operator |-> "SPAN",
                       terms |-> chk.value.terms, implicit |-> FALSE,
                       field |-> chk.value.f, slop |-> slop,
                       in_order |-> in_order])

(***************************************************************************)
(* pyparsing.  A parser element applied at a position of the token         *)
(* sequence either matches (st = "ok", the next position, the tokens it    *)
(* returns), fails (a ParseException, which the enclosing alternative      *)
(* catches) or lets an exception of a parse action through (st = "raise":  *)
(* the module's ParseError, which pyparsing does not catch).  Parse        *)
(* actions run only when act is TRUE: a FollowedBy lookahead parses with   *)
(* doActions=False.                                                        *)
(***************************************************************************)
POk(pos, toks) == [st |-> "ok", pos |-> pos, toks |-> toks]
PFail == [st |-> "fail", pos |-> 0, toks |-> <<>>]
PRaise == [st |-> "raise", pos |-> 0, toks |-> <<>>]

OpToken(name, slop) == [kind |-> "op", operator |-> name, slop |-> slop]
ParseResults(toks) == [kind |-> "ParseResults", toks |-> toks]

\* The operator expression of each level of the operatorPrecedence table,
\* tightest first: AND, NOT, SPAN, Optional(OR, default="implicit_OR").
OpAt(lvl, s, pos) ==
    LET typ == IF pos <= Len(s) THEN s[pos].typ ELSE "<end>"
    IN  CASE lvl = 1 ->
               IF typ = "AND" THEN POk(pos + 1, <<OpToken("AND", <<>>)>>) ELSE PFail
          [] lvl = 2 ->
               IF typ = "NOT" THEN POk(pos + 1, <<OpToken("NOT", <<>>)>>) ELSE PFail
          [] lvl = 3 ->
               IF typ = "W/" /\ s[pos].n # <<>>
               THEN POk(pos + 1, <<OpToken("W/", Unicode(s[pos].n))>>) ELSE PFail
          [] OTHER ->
               IF typ = "OR" THEN POk(pos + 1, <<OpToken("OR", <<>>)>>)
               ELSE POk(pos, <<OpToken("implicit_OR", <<>>)>>)

TopLevel == 4

\* a mutant of LastOperator: the value of the results name set first
LastOperator_first(toks) ==
    LET idx == {i \in 1..Len(toks) : toks[i].kind = "op"}
    IN  toks[CHOOSE i \in idx : \A j \in idx : i <= j]

\* token['operator']: the value of the results name set last in the group
LastOperator(toks) ==
    LET idx == {i \in 1..Len(toks) : toks[i].kind = "op"}
    IN  toks[CHOOSE i \in idx : \A j \in idx : j <= i]

RECURSIVE parse_to_terms(_), get_term(_), lucene_span(_, _, _),
          ParseExpr(_, _, _, _), ParseAtom(_, _, _), ParseOperands(_, _, _, _, _),
          ParseBooleanExpr(_, _, _)

\* the int a string of digits denotes
DigitValue(ch) ==
    CASE ch = "0" -> 0 [] ch = "1" -> 1 [] ch = "2" -> 2 [] ch = "3" -> 3
      [] ch = "4" -> 4 [] ch = "5" -> 5 [] ch = "6" -> 6 [] ch = "7" -> 7
      [] ch = "8" -> 8 [] OTHER -> 9

RECURSIVE ToInt(_)
ToInt(digits) ==
    IF digits = <<>> THEN 0
    ELSE 10 * ToInt(ButLast(digits)) + DigitValue(digits[Len(digits)])

PyInt(n) == [kind |-> "int", value |-> n]

\* a mutant of get_boolean_or_term: the digits of W/N are converted to an int
get_boolean_or_term_int_slop(tokens) ==
    LET token == tokens[1]
    IN  IF IsNode(token) THEN Returned(token)
        ELSE LET op == LastOperator(token.toks)
                 terms == SelectSeq(token.toks, IsNode)
                 implicit == op.operator = "implicit_OR"
             IN  IF op.operator = "W/"
                 THEN Span(terms, PyInt(ToInt(op.slop.text)), None, FALSE)
                 ELSE Returned(Boolean(IF implicit THEN "OR" ELSE op.operator,
                                       terms, implicit))

\* a mutant of get_boolean_or_term: a node that is passed through is wrapped
get_boolean_or_term_wraps(tokens) ==
    LET token == tokens[1]
    IN  IF IsNode(token) THEN Returned(Boolean("OR", <<token>>, TRUE))
        ELSE LET op == LastOperator(token.toks)
                 terms == SelectSeq(token.toks, IsNode)
                 implicit == op.operator = "implicit_OR"
             IN  IF op.operator = "W/" THEN Span(terms, op.slop, None, FALSE)
                 ELSE Returned(Boolean(IF implicit THEN "OR" ELSE op.operator,
                                       terms, implicit))

\* a mutant of get_boolean_or_term: one juxtaposition anywhere in the group
\* makes it implicit
get_boolean_or_term_any_implicit(tokens) ==
    LET token == tokens[1]
    IN  IF IsNode(token) THEN Returned(token)
        ELSE LET op == LastOperator(token.toks)
                 terms == SelectSeq(token.toks, IsNode)
                 isOr == op.operator \in {"OR", "implicit_OR"}
                 implicit ==
                   isOr /\ \E i \in 1..Len(token.toks) :
                              /\ token.toks[i].kind = "op"
                              /\ token.toks[i].operator = "implicit_OR"
             IN  IF op.operator = "W/" THEN Span(terms, op.slop, None, FALSE)
                 ELSE Returned(Boolean(IF isOr THEN "OR" ELSE op.operator,
                                       terms, implicit))

\* a mutant of get_boolean_or_term: a juxtaposition is not told from an OR
get_boolean_or_term_never_implicit(tokens) ==
    LET token == tokens[1]
    IN  IF IsNode(token) THEN Returned(token)
        ELSE LET op == LastOperator(token.toks)
                 terms == SelectSeq(token.toks, IsNode)
                 implicit == op.operator = "implicit_OR"
             IN  IF op.operator = "W/" THEN Span(terms, op.slop, None, FALSE)
                 ELSE Returned(Boolean(IF implicit THEN "OR" ELSE op.operator,
                                       terms, FALSE))

\* get_boolean_or_term
get_boolean_or_term(tokens) ==
    LET token == tokens[1]
    IN  IF IsNode(token) THEN Returned(token)
        ELSE LET op == LastOperator(token.toks)
                 terms == SelectSeq(token.toks, IsNode)
                 implicit == op.operator = "implicit_OR"
             IN  IF op.operator = "W/" THEN Span(terms, op.slop, None, FALSE)
                 ELSE Returned(Boolean(IF implicit THEN "OR" ELSE op.operator,
                                       terms, implicit))

\* a mutant of lucene_span: the Span is built with in_order=True
lucene_span_in_order(quote, field, slop) ==
    LET clause == parse_to_terms(quote)
    IN  IF clause.exc # "" THEN clause
        ELSE IF ~(IsBoolean(clause.value) /\ clause.value.operator = "OR"
                  /\ clause.value.implicit)
        THEN Raised("ParseError")
        ELSE Span(clause.value.terms, slop, field, TRUE)

\* a mutant of lucene_span: the field prefix of the phrase is not handed on
lucene_span_no_field(quote, field, slop) ==
    LET clause == parse_to_terms(quote)
    IN  IF clause.exc # "" THEN clause
        ELSE IF ~(IsBoolean(clause.value) /\ clause.value.operator = "OR"
                  /\ clause.value.implicit)
        THEN Raised("ParseError")
        ELSE Span(clause.value.terms, slop, None, FALSE)

\* a mutant of lucene_span: an explicit OR is taken for a list of terms
lucene_span_any_or(quote, field, slop) ==
    LET clause == parse_to_terms(quote)
    IN  IF clause.exc # "" THEN clause
        ELSE IF ~(IsBoolean(clause.value) /\ clause.value.operator = "OR")
        THEN Raised("ParseError")
        ELSE Span(clause.value.terms, slop, field, FALSE)

\* lucene_span
lucene_span(quote, field, slop) ==
    LET clause == parse_to_terms(quote)
    IN  IF clause.exc # "" THEN clause
        ELSE IF ~(IsBoolean(clause.value) /\ clause.value.operator = "OR"
                  /\ clause.value.implicit)
        THEN Raised("ParseError")
        ELSE Span(clause.value.terms, slop, field, FALSE)

\* get_term, on the tokens of one fterm
get_term(t) ==
    IF t.typ = "quote" /\ t.n # <<>> THEN lucene_span(t.body, t.field, Unicode(t.n))
    ELSE IF t.typ = "quote"
    THEN IF Contains(ButLast(JoinChars(t.body)), "*")
         THEN Span(PyIter(JoinChars(t.body)), t.field, 0, TRUE)
         ELSE Returned(Quote(JoinChars(t.body), t.field))
    ELSE Returned(Term(IF t.typ = "word" THEN t.text ELSE TokChars(t), t.field))

\* lastExpr of the first level: fterm | ( lpar + ret + rpar )
ParseAtom(s, pos, act) ==
    IF pos > Len(s) THEN PFail
    ELSE
      LET t == s[pos]
          made == get_term(t)
          inner == ParseBooleanExpr(s, pos + 1, act)
      IN  CASE t.typ = "(" ->
                 IF inner.st # "ok" THEN inner
                 ELSE IF inner.pos <= Len(s) /\ s[inner.pos].typ = ")"
                 THEN POk(inner.pos + 1, inner.toks)
                 ELSE PFail
            [] t.typ = ")" -> PFail
            [] OTHER ->
                 IF ~act THEN POk(pos + 1, <<>>)
                 ELSE IF made.exc = "" THEN POk(pos + 1, <<made.value>>)
                 ELSE IF made.exc = "ParseError" THEN PRaise
                 ELSE PFail

\* OneOrMore(opExpr + lastExpr) after the first operand and operator pair:
\* toks are the tokens collected so far, ending at pos.
ParseOperands(lvl, s, pos, act, toks) ==
    LET op == OpAt(lvl, s, pos)
        operand == ParseExpr(lvl - 1, s, op.pos, act)
    IN  IF op.st # "ok" THEN POk(pos, toks)
        ELSE IF operand.st = "raise" THEN PRaise
        ELSE IF operand.st = "fail" THEN POk(pos, toks)
        ELSE ParseOperands(lvl, s, operand.pos, act,
                           toks \o op.toks \o operand.toks)

\* thisExpr of level lvl of operatorPrecedence:
\*   FollowedBy(lastExpr + opExpr + lastExpr)
\*     + Group(lastExpr + OneOrMore(opExpr + lastExpr))   |   lastExpr
\* Without parse actions a parse is a function of the position, so inside a
\* lookahead the Group takes the two operands the FollowedBy has found.
ParseExpr(lvl, s, pos, act) ==
    IF lvl = 0 THEN ParseAtom(s, pos, act)
    ELSE
      LET la1 == ParseExpr(lvl - 1, s, pos, FALSE)
          laop == OpAt(lvl, s, la1.pos)
          la2 == ParseExpr(lvl - 1, s, laop.pos, FALSE)
          followed == la1.st = "ok" /\ laop.st = "ok" /\ la2.st = "ok"
          first == IF act THEN ParseExpr(lvl - 1, s, pos, TRUE) ELSE la1
          op == OpAt(lvl, s, first.pos)
          second == IF act THEN ParseExpr(lvl - 1, s, op.pos, TRUE) ELSE la2
          more == ParseOperands(lvl, s, second.pos, act,
                                first.toks \o op.toks \o second.toks)
          group ==
            IF first.st # "ok" THEN first
            ELSE IF op.st # "ok" THEN PFail
            ELSE IF second.st # "ok" THEN second
            ELSE IF more.st # "ok" THEN more
            ELSE POk(more.pos, <<ParseResults(more.toks)>>)
      IN  IF ~followed THEN first
          ELSE IF group.st = "fail" THEN first
          ELSE group

\* boolean_expr: the Forward returned by operatorPrecedence, with the parse
\* action get_boolean_or_term set on it
ParseBooleanExpr(s, pos, act) ==
    LET r == ParseExpr(TopLevel, s, pos, act)
        made == get_boolean_or_term(r.toks)
    IN  IF r.st # "ok" \/ ~act THEN r
        ELSE IF made.exc # "" THEN PRaise
        ELSE POk(r.pos, <<made.value>>)

\* parse_to_terms: get_grammar().parseString(s, parseAll=True)[0]
parse_to_terms(s) ==
    LET r == ParseBooleanExpr(s, 1, TRUE)
    IN  IF r.st = "raise" THEN Raised("ParseError")
        ELSE IF r.st = "fail" \/ r.pos # Len(s) + 1 THEN Raised("ParseException")
        ELSE Returned(r.toks[1])

(***************************************************************************)
(* The compiler to the elastic DSL.  A Python dict with one key is the     *)
(* pair Dict(key, value); the dicts with several keys are records.         *)
(***************************************************************************)
Dict(k, v) == [key |-> k, val |-> v]

RECURSIVE Product(_)
\* itertools.product(*lists): the tuples in order, the last list varying fastest
Product(lists) ==
    IF lists = <<>> THEN << <<>> >>
    ELSE LET rest == Product(Tail(lists))
             heads == Head(lists)
             n == Len(rest)
         IN  [k \in 1..(Len(heads) * n) |->
                <<heads[((k - 1) \div n) + 1]>> \o rest[((k - 1) % n) + 1]]

RECURSIVE get_clause(_, _)

\* a mutant of get_clause: a clause is put on the field of its own Term
get_clause_own_field(term, field) ==
    IF term.kind = "Term"
    THEN IF EndsWith(term.text, "*")
         THEN <<Dict("span_multi", Dict("match", Dict("prefix",
                    Dict(qfield(term), Dict("value", ButLast(term.text))))))>>
         ELSE <<Dict("span_term", Dict(qfield(term), term.text))>>
    ELSE [i \in 1..Len(term.terms) |-> get_clause(term.terms[i], field)[1]]

\* get_clause of Span.get_dsl: the list of span clauses of one operand
get_clause(term, field) ==
    IF term.kind = "Term"
    THEN IF EndsWith(term.text, "*")
         THEN <<Dict("span_multi", Dict("match", Dict("prefix",
                    Dict(field, Dict("value", ButLast(term.text))))))>>
         ELSE <<Dict("span_term", Dict(field, term.text))>>
    ELSE [i \in 1..Len(term.terms) |-> get_clause(term.terms[i], field)[1]]

\* a mutant of span_get_dsl: a single span_near is wrapped in bool/should too
span_get_dsl_always_should(self) ==
    LET lists == [i \in 1..Len(self.terms) |-> get_clause(self.terms[i], qfield(self))]
        tuples == Product(lists)
        clauses == [i \in 1..Len(tuples) |->
                      Dict("span_near", [slop |-> self.slop,
                                         in_order |-> self.in_order,
                                         clauses |-> tuples[i]])]
    IN  Dict("bool", Dict("should", clauses))

\* Span.get_dsl
span_get_dsl(self) ==
    LET lists == [i \in 1..Len(self.terms) |-> get_clause(self.terms[i], qfield(self))]
        tuples == Product(lists)
        clauses == [i \in 1..Len(tuples) |->
                      Dict("span_near", [slop |-> self.slop,
                                         in_order |-> self.in_order,
                                         clauses |-> tuples[i]])]
    IN  IF Len(clauses) = 1 THEN clauses[1]
        ELSE Dict("bool", Dict("should", clauses))

RECURSIVE get_dsl(_)

\* a mutant of get_dsl: every node that is not a NOT node becomes a should
get_dsl_all_should(self) ==
    CASE self.kind = "Term" ->
           Returned(Dict(IF Contains(self.text, "*") THEN "wildcard" ELSE "term",
                         Dict(qfield(self), self.text)))
      [] self.kind = "Quote" ->
           Returned(IF EndsWith(self.text, "*")
                    THEN Dict("match_phrase_prefix",
                              Dict(qfield(self), ButLast(self.text)))
                    ELSE Dict("match_phrase", Dict(qfield(self), self.text)))
      [] self.kind = "Span" -> Returned(span_get_dsl(self))
      [] OTHER ->
           LET subs == [i \in 1..Len(self.terms) |-> get_dsl(self.terms[i])]
               failed == {i \in 1..Len(subs) : subs[i].exc # ""}
           IN  IF self.operator = "NOT" /\ Len(self.terms) = 0
               THEN Raised("IndexError")
               ELSE IF failed # {} THEN subs[CHOOSE i \in failed : TRUE]
               ELSE IF self.operator = "NOT"
               THEN Returned(Dict("bool",
                      [must |-> <<subs[1].value>>,
                       must_not |-> [i \in 1..(Len(subs) - 1) |-> subs[i + 1].value]]))
               ELSE Returned(Dict("bool",
                      Dict("should", [i \in 1..Len(subs) |-> subs[i].value])))

\* a mutant of get_dsl: the children of an AND or OR node are compiled last
\* to first
get_dsl_reversed(self) ==
    CASE self.kind = "Term" ->
           Returned(Dict(IF Contains(self.text, "*") THEN "wildcard" ELSE "term",
                         Dict(qfield(self), self.text)))
      [] self.kind = "Quote" ->
           Returned(IF EndsWith(self.text, "*")
                    THEN Dict("match_phrase_prefix",
                              Dict(qfield(self), ButLast(self.text)))
                    ELSE Dict("match_phrase", Dict(qfield(self), self.text)))
      [] self.kind = "Span" -> Returned(span_get_dsl(self))
      [] OTHER ->
           LET subs == [i \in 1..Len(self.terms) |-> get_dsl(self.terms[i])]
               failed == {i \in 1..Len(subs) : subs[i].exc # ""}
           IN  IF self.operator = "NOT" /\ Len(self.terms) = 0
               THEN Raised("IndexError")
               ELSE IF failed # {} THEN subs[CHOOSE i \in failed : TRUE]
               ELSE IF self.operator = "NOT"
               THEN Returned(Dict("bool",
                      [must |-> <<subs[1].value>>,
                       must_not |-> [i \in 1..(Len(subs) - 1) |-> subs[i + 1].value]]))
               ELSE Returned(Dict("bool",
                      Dict(IF self.operator = "OR" THEN "should" ELSE "must",
                           [i \in 1..Len(subs) |-> subs[Len(subs) + 1 - i].value])))

\* a mutant of get_dsl: the first child of a NOT node is excluded as well
get_dsl_must_not_all(self) ==
    CASE self.kind = "Term" ->
           Returned(Dict(IF Contains(self.text, "*") THEN "wildcard" ELSE "term",
                         Dict(qfield(self), self.text)))
      [] self.kind = "Quote" ->
           Returned(IF EndsWith(self.text, "*")
                    THEN Dict("match_phrase_prefix",
                              Dict(qfield(self), ButLast(self.text)))
                    ELSE Dict("match_phrase", Dict(qfield(self), self.text)))
      [] self.kind = "Span" -> Returned(span_get_dsl(self))
      [] OTHER ->
           LET subs == [i \in 1..Len(self.terms) |-> get_dsl(self.terms[i])]
               failed == {i \in 1..Len(subs) : subs[i].exc # ""}
           IN  IF self.operator = "NOT" /\ Len(self.terms) = 0
               THEN Raised("IndexError")
               ELSE IF failed # {} THEN subs[CHOOSE i \in failed : TRUE]
               ELSE IF self.operator = "NOT"
               THEN Returned(Dict("bool",
                      [must |-> <<subs[1].value>>,
                       must_not |-> [i \in 1..Len(subs) |-> subs[i].value]]))
               ELSE Returned(Dict("bool",
                      Dict(IF self.operator = "OR" THEN "should" ELSE "must",
                           [i \in 1..Len(subs) |-> subs[i].value])))

\* Term.get_dsl, Quote.get_dsl, Boolean.get_dsl and Span.get_dsl; terms[0] of
\* a NOT node without children raises IndexError
get_dsl(self) ==
    CASE self.kind = "Term" ->
           Returned(Dict(IF Contains(self.text, "*") THEN "wildcard" ELSE "term",
                         Dict(qfield(self), self.text)))
      [] self.kind = "Quote" ->
           Returned(IF EndsWith(self.text, "*")
                    THEN Dict("match_phrase_prefix",
                              Dict(qfield(self), ButLast(self.text)))
                    ELSE Dict("match_phrase", Dict(qfield(self), self.text)))
      [] self.kind = "Span" -> Returned(span_get_dsl(self))
      [] OTHER ->
           LET subs == [i \in 1..Len(self.terms) |-> get_dsl(self.terms[i])]
               failed == {i \in 1..Len(subs) : subs[i].exc # ""}
           IN  IF self.operator = "NOT" /\ Len(self.terms) = 0
               THEN Raised("IndexError")
               ELSE IF failed # {} THEN subs[CHOOSE i \in failed : TRUE]
               ELSE IF self.operator = "NOT"
               THEN Returned(Dict("bool",
                      [must |-> <<subs[1].value>>,
                       must_not |-> [i \in 1..(Len(subs) - 1) |-> subs[i + 1].value]]))
               ELSE Returned(Dict("bool",
                      Dict(IF self.operator = "OR" THEN "should" ELSE "must",
                           [i \in 1..Len(subs) |-> subs[i].value])))

\* parse
parse(s) ==
    LET r == parse_to_terms(s)
    IN  IF r.exc # "" THEN r ELSE get_dsl(r.value)

(***************************************************************************)
(* The inputs.                                                             *)
(***************************************************************************)
a == Word(<<"a">>, "")
b == Word(<<"b">>, "")
c == Word(<<"c">>, "")
d == Word(<<"d">>, "")
xa == Word(<<"a">>, "x")
yb == Word(<<"b">>, "y")
aStar == Word(<<"a", "*">>, "")
W1 == Prox(<<"1">>)
W2 == Prox(<<"2">>)
W5 == Prox(<<"5">>)
W10 == Prox(<<"1", "0">>)

RECURSIVE SeqsUpTo(_, _)
\* the sequences over S of length at most n
SeqsUpTo(S, n) ==
    IF n = 0 THEN {<<>>}
    ELSE LET shorter == SeqsUpTo(S, n - 1)
         IN  shorter \cup {Append(q, t) : q \in shorter, t \in S}

CoreTokens == {a, xa, yb, tAND, tOR, tNOT, W1, LPAR, RPAR}
CoreQueries == SeqsUpTo(CoreTokens, MaxLen) \ {<<>>}

BodyTokens == {a, b, aStar, tAND, tOR, LPAR, RPAR}
Bodies == SeqsUpTo(BodyTokens, MaxBody) \ {<<>>}
Phrases == {Phrase(body, f, n) : body \in Bodies, f \in {"", "x"}, n \in {<<>>, <<"5">>}}
PhraseQueries ==
    {<<p>> : p \in Phrases} \cup {<<p, W1, c>> : p \in {r \in Phrases : r.field = ""}}

\* proximity queries over words with and without a field prefix
FieldWords == {Word(<<"a">>, f) : f \in {"", "x", "y"}}
FieldQueries ==
    {<<w1, W1, w2>> : w1 \in FieldWords, w2 \in FieldWords}
      \cup {<<LPAR, w1, w2, RPAR, W1, w3>> :
              w1 \in FieldWords, w2 \in FieldWords, w3 \in FieldWords}

\* the queries of TestQueryParser
TestQueries ==
    { <<a>>, <<a, b>>, <<a, tOR, b>>, <<a, tAND, b>>, <<a, tNOT, b>>,
      <<a, tAND, LPAR, b, c, RPAR>>, <<LPAR, a, tAND, b, RPAR, c>>,
      <<Phrase(<<a, b>>, "", <<>>)>>, <<Phrase(<<a, b>>, "", <<>>), c>>,
      <<a, W10, b>>, <<LPAR, a, b, RPAR, W10, c>>, <<LPAR, xa, b, RPAR, W10, c>>,
      <<a, W10, LPAR, b, tOR, LPAR, c, tOR, d, RPAR, RPAR>>,
      <<xa, W10, yb>>, <<a, W10, LPAR, b, tAND, c, RPAR>>,
      <<a, W10, LPAR, b, W5, c, RPAR>>,
      <<Phrase(<<a, b>>, "", <<"5">>)>>, <<Phrase(<<a, b>>, "x", <<"5">>)>>,
      <<Phrase(<<a, LPAR, b, c, RPAR>>, "", <<"5">>)>>,
      <<Phrase(<<a, LPAR, b, tAND, c, RPAR>>, "", <<"5">>)>>,
      <<aStar>>, <<Word(<<"a", "!">>, "")>>, <<aStar, W10, b>>,
      <<a, W10, LPAR, b, c, RPAR>> }

\* the chains w1 op w2 op ... wn without parentheses, an absent operator being
\* a juxtaposition
ChainLetters == <<"a", "b", "c", "d", "e", "f">>
ChainOps == {<<tAND>>, <<tNOT>>, <<W1>>, <<W2>>, <<tOR>>, <<>>}

RECURSIVE Chain(_, _)
Chain(n, ops) ==
    IF n = 1 THEN <<Word(<<ChainLetters[1]>>, "")>>
    ELSE Chain(n - 1, ops) \o ops[n - 1] \o <<Word(<<ChainLetters[n]>>, "")>>

ChainQueries ==
    UNION {{Chain(n, ops) : ops \in [1..(n - 1) -> ChainOps]} : n \in 2..MaxOperands}

\* proximity queries over words with a wildcard at the end, inside, in front,
\* or written as !
WildcardWords ==
    {Word(t, "") : t \in {<<"a">>, <<"a", "*">>, <<"a", "!">>, <<"a", "*", "b">>,
                          <<"*", "a">>, <<"*">>}}
WildcardQueries ==
    {<<w1, W1, w2>> : w1 \in WildcardWords, w2 \in WildcardWords}
      \cup {<<LPAR, w1, w2, RPAR, W1, c>> : w1 \in WildcardWords, w2 \in WildcardWords}

\* the two notations of a proximity query, for several ways of writing N
SlopDigits == {<<"0">>, <<"5">>, <<"1", "0">>, <<"0", "5">>}
SlopQueries ==
    {<<a, Prox(n), b>> : n \in SlopDigits}
      \cup {<<Phrase(<<a, b>>, "", n)>> : n \in SlopDigits}

\* phrases in which a wildcard is written as !
BangPhraseQueries ==
    {<<Phrase(body, f, <<>>)>> :
        body \in {<<a, Word(<<"b", "!">>, "")>>, <<Word(<<"a", "!">>, ""), b>>,
                  <<Word(<<"a", "!">>, "")>>},
        f \in {"", "x"}}

\* phrase-slop shorthands whose body mixes OR and juxtaposition
MixedOrBodies ==
    { <<a, tOR, b, c>>, <<a, b, tOR, c>>, <<a, tOR, b, c, d>>,
      <<a, b, tOR, c, d>>, <<a, b, c, tOR, d>>, <<a, tOR, b, c, tOR, d>> }
MixedOrQueries == {<<Phrase(body, "", <<"5">>)>> : body \in MixedOrBodies}

\* proximity queries with a quoted phrase as operand or in an OR operand
QuotedOperands == {Phrase(body, f, <<>>) : body \in {<<a, b>>, <<a>>}, f \in {"", "x"}}
QuoteProximityQueries ==
    UNION {{ <<p, W10, c>>, <<c, W10, p>>, <<c, W10, d, W10, p>>,
             <<LPAR, p, c, RPAR, W10, d>>, <<d, W10, LPAR, c, p, RPAR>>,
             <<LPAR, c, tOR, p, RPAR, W10, d>> } : p \in QuotedOperands}

\* expressions in one and in two pairs of redundant parentheses
InParens(q) == <<LPAR>> \o q \o <<RPAR>>
ParenBase ==
    {q \in CoreQueries : Len(q) <= MaxInner}
      \cup {q \in ChainQueries : Len(q) <= MaxInner + 2}
      \cup {<<Phrase(<<a, b>>, "x", n)>> : n \in {<<>>, <<"5">>}}
ParenQueries ==
    {InParens(q) : q \in ParenBase} \cup {InParens(InParens(q)) : q \in ParenBase}

\* a group in parentheses that parses to a NOT node without children, as
\* operand of AND, of OR and of a juxtaposition
ChildlessNotGroup == <<LPAR, a, tAND, b, tNOT, c, tAND, d, RPAR>>
ChildlessNotQueries ==
    {ChildlessNotGroup \o <<tAND, a>>, ChildlessNotGroup \o <<tOR, a>>,
     <<a>> \o ChildlessNotGroup}

\* the queries of one word, with and without wildcard and field prefix
TermQueries ==
    {<<Word(w.text, f)>> : w \in WildcardWords, f \in {"", "x"}}

Queries ==
    CoreQueries \cup ChainQueries \cup PhraseQueries \cup FieldQueries
      \cup WildcardQueries \cup SlopQueries \cup TermQueries
      \cup BangPhraseQueries \cup MixedOrQueries \cup QuoteProximityQueries
      \cup ParenQueries \cup ChildlessNotQueries \cup TestQueries

\* the operands handed to the Span constructor directly
TermNodes == {Term(<<"a">>, f) : f \in {"", "x", "y"}} \cup {Term(<<"b">>, "")}
OrNodes ==
    {Boolean("OR", <<t1, t2>>, TRUE) :
        t1 \in {Term(<<"a">>, ""), Term(<<"a">>, "x")},
        t2 \in {Term(<<"a">>, ""), Term(<<"a">>, "y"), Term(<<"b">>, "")}}
NestedOrNodes ==
    {Boolean("OR", <<Term(<<"b">>, ""), o>>, FALSE) :
        o \in {Boolean("OR", <<Term(<<"a">>, f), Term(<<"b">>, "")>>, TRUE) :
                 f \in {"", "x"}}}
OtherNodes ==
    { Boolean("AND", <<Term(<<"a">>, ""), Term(<<"b">>, "")>>, FALSE),
      Boolean("NOT", <<Term(<<"a">>, ""), Term(<<"b">>, "")>>, FALSE),
      Quote(<<"a", " ", "b">>, ""),
      Span(<<Term(<<"a">>, ""), Term(<<"b">>, "")>>, Unicode(<<"5">>), None,
           FALSE).value }
SpanOperands == TermNodes \cup OrNodes \cup NestedOrNodes \cup OtherNodes
SpanArgs ==
    [terms : SeqsUpTo(SpanOperands, MaxSpanTerms) \ {<<>>},
     slop : {Unicode(<<"5">>)}, field : {None, "x"}, in_order : {FALSE}]

NoCall == [op |-> "none"]

\* The threads, and the grammar object each of them may construct: an object
\* is named after the thread that constructs it.  A grammar object is built
\* in steps: the terms, the parse action of fterm, the rules of
\* operatorPrecedence, the parse action of boolean_expr.
ThreadNames == <<"t1", "t2", "t3", "t4", "t5">>
Threads == {ThreadNames[i] : i \in 1..MaxThreads}
NotBuilt ==
    [fterm |-> FALSE, get_term |-> FALSE, boolean_expr |-> FALSE,
     get_boolean_or_term |-> FALSE]

\* the strings a caller parses again and again, and what the caller keeps of a
\* call that has returned: the query, or the exception that left parse
HistoryQueries ==
    { <<a>>, <<a, tAND, b>>, <<a, W10, b>>, <<LPAR, xa, b, RPAR, W10, c>>,
      <<xa, W10, yb>>, <<LPAR, a>>, <<a, tAND, b, c>>,
      <<Phrase(<<a, b>>, "x", <<"5">>)>> }
NoResult == [exc |-> "none", value |-> None]

Init ==
    /\ grammar = None
    /\ pc = "idle"
    /\ call = NoCall
    /\ tree = Returned(None)
    /\ dsl = Returned(None)
    /\ dsl2 = Returned(None)
    /\ tpc = [t \in Threads |-> "idle"]
    /\ heap = [t \in Threads |-> NotBuilt]
    /\ got = [t \in Threads |-> None]
    /\ history = [s \in HistoryQueries |-> NoResult]

\* a caller calls parse(s)
CallParse ==
    /\ pc = "idle"
    /\ \E s \in Queries : call' = [op |-> "parse", s |-> s]
    /\ pc' = "parse_to_terms"
    /\ UNCHANGED <<grammar, tree, dsl, dsl2>>
    /\ UNCHANGED <<threadVars, history>>

\* a mutant of ParseToTerms: a grammar that has parsed before parses nothing
ParseToTerms_only_first ==
    /\ pc = "parse_to_terms"
    /\ grammar' = "boolean_expr"
    /\ tree' = IF grammar = None THEN parse_to_terms(call.s)
               ELSE Raised("ParseException")
    /\ pc' = IF tree'.exc = "" THEN "get_dsl" ELSE "done"
    /\ UNCHANGED <<call, dsl, dsl2>>
    /\ UNCHANGED <<threadVars, history>>

\* parse_to_terms(s) runs: get_grammar builds the grammar when it is not built
\* yet, and the string is parsed; an exception leaves parse
ParseToTerms ==
    /\ pc = "parse_to_terms"
    /\ grammar' = "boolean_expr"
    /\ tree' = parse_to_terms(call.s)
    /\ pc' = IF tree'.exc = "" THEN "get_dsl" ELSE "done"
    /\ UNCHANGED <<call, dsl, dsl2>>
    /\ UNCHANGED <<threadVars, history>>

\* a caller constructs a Span over nodes it holds
CallSpan ==
    /\ pc = "idle"
    /\ \E args \in SpanArgs : call' = [op |-> "Span", args |-> args]
    /\ pc' = "Span"
    /\ UNCHANGED <<grammar, tree, dsl, dsl2>>
    /\ UNCHANGED <<threadVars, history>>

\* Span.__init__ runs
SpanInit ==
    /\ pc = "Span"
    /\ tree' = Span(call.args.terms, call.args.slop, call.args.field,
                    call.args.in_order)
    /\ pc' = IF tree'.exc = "" THEN "get_dsl" ELSE "done"
    /\ UNCHANGED <<grammar, call, dsl, dsl2>>
    /\ UNCHANGED <<threadVars, history>>

\* the root node is compiled
GetDsl ==
    /\ pc = "get_dsl"
    /\ dsl' = get_dsl(tree.value)
    /\ pc' = "done"
    /\ UNCHANGED <<grammar, call, tree, dsl2>>
    /\ UNCHANGED <<threadVars, history>>

\* the caller compiles the root node it holds a second time
GetDslAgain ==
    /\ pc = "done" /\ call.op # "none" /\ tree.exc = ""
    /\ dsl2' = get_dsl(tree.value)
    /\ pc' = "again"
    /\ UNCHANGED <<grammar, call, tree, dsl>>
    /\ UNCHANGED <<threadVars, history>>

Next ==
    \/ CallParse
    \/ ParseToTerms
    \/ CallSpan
    \/ SpanInit
    \/ GetDsl
    \/ GetDslAgain

Spec == Init /\ [][Next]_vars

(***************************************************************************)
(* parse called again and again by one caller: the only state a call       *)
(* leaves behind is the module-level _grammar.                             *)
(***************************************************************************)
\* the caller calls parse(s) on one of the strings
CallParseAgain ==
    /\ pc = "idle"
    /\ \E s \in HistoryQueries : call' = [op |-> "parse", s |-> s]
    /\ pc' = "parse_to_terms"
    /\ UNCHANGED <<grammar, tree, dsl, dsl2, history>>
    /\ UNCHANGED threadVars

\* parse returns the query or is left by the exception; the caller keeps it
ReturnParse ==
    /\ pc = "done" /\ call.op = "parse"
    /\ history' = [history EXCEPT ![call.s] = IF tree.exc # "" THEN tree ELSE dsl]
    /\ pc' = "idle"
    /\ call' = NoCall
    /\ tree' = Returned(None)
    /\ dsl' = Returned(None)
    /\ UNCHANGED <<grammar, dsl2>>
    /\ UNCHANGED threadVars

HistoryNext ==
    \/ CallParseAgain
    \/ ParseToTerms
    \/ GetDsl
    \/ ReturnParse

HistorySpec == Init /\ [][HistoryNext]_vars

(***************************************************************************)
(* get_grammar called by several threads.  There is no lock in the code,   *)
(* so a thread may be pre-empted between any two statements: the test of   *)
(* _grammar, the statements that build the grammar in local variables, the *)
(* assignment to _grammar and the return are separate steps.               *)
(***************************************************************************)
\* a thread calls get_grammar (through parse_to_terms)
CallGetGrammar(t) ==
    /\ tpc[t] = "idle"
    /\ tpc' = [tpc EXCEPT ![t] = "test"]
    /\ UNCHANGED <<grammar, heap, got>>
    /\ UNCHANGED parseVars

\* if _grammar is None:
TestGrammar(t) ==
    /\ tpc[t] = "test"
    /\ tpc' = [tpc EXCEPT ![t] = IF grammar = None THEN "terms" ELSE "return"]
    /\ UNCHANGED <<grammar, heap, got>>
    /\ UNCHANGED parseVars

\* the literals and the terms, up to fterm
BuildTerms(t) ==
    /\ tpc[t] = "terms"
    /\ heap' = [heap EXCEPT ![t].fterm = TRUE]
    /\ tpc' = [tpc EXCEPT ![t] = "fterm.setParseAction"]
    /\ UNCHANGED <<grammar, got>>
    /\ UNCHANGED parseVars

\* fterm.setParseAction(get_term)
SetTermAction(t) ==
    /\ tpc[t] = "fterm.setParseAction"
    /\ heap' = [heap EXCEPT ![t].get_term = TRUE]
    /\ tpc' = [tpc EXCEPT ![t] = "operatorPrecedence"]
    /\ UNCHANGED <<grammar, got>>
    /\ UNCHANGED parseVars

\* a mutant of OperatorPrecedence: the grammar is published as soon as its
\* rules exist
OperatorPrecedence_publishes(t) ==
    /\ tpc[t] = "operatorPrecedence"
    /\ heap' = [heap EXCEPT ![t].boolean_expr = TRUE]
    /\ grammar' = t
    /\ tpc' = [tpc EXCEPT ![t] = "boolean_expr.setParseAction"]
    /\ UNCHANGED got
    /\ UNCHANGED parseVars

\* boolean_expr = operatorPrecedence(fterm, [...]), a local variable
OperatorPrecedence(t) ==
    /\ tpc[t] = "operatorPrecedence"
    /\ heap' = [heap EXCEPT ![t].boolean_expr = TRUE]
    /\ tpc' = [tpc EXCEPT ![t] = "boolean_expr.setParseAction"]
    /\ UNCHANGED <<grammar, got>>
    /\ UNCHANGED parseVars

\* boolean_expr.setParseAction(get_boolean_or_term)
SetParseAction(t) ==
    /\ tpc[t] = "boolean_expr.setParseAction"
    /\ heap' = [heap EXCEPT ![t].get_boolean_or_term = TRUE]
    /\ tpc' = [tpc EXCEPT ![t] = "assign"]
    /\ UNCHANGED <<grammar, got>>
    /\ UNCHANGED parseVars

\* _grammar = boolean_expr
AssignGrammar(t) ==
    /\ tpc[t] = "assign"
    /\ grammar' = t
    /\ tpc' = [tpc EXCEPT ![t] = "return"]
    /\ UNCHANGED <<heap, got>>
    /\ UNCHANGED parseVars

\* return _grammar: the global is read again
ReturnGrammar(t) ==
    /\ tpc[t] = "return"
    /\ got' = [got EXCEPT ![t] = grammar]
    /\ tpc' = [tpc EXCEPT ![t] = "returned"]
    /\ UNCHANGED <<grammar, heap>>
    /\ UNCHANGED parseVars

ThreadNext ==
    \E t \in Threads :
        \/ CallGetGrammar(t)
        \/ TestGrammar(t)
        \/ BuildTerms(t)
        \/ SetTermAction(t)
        \/ OperatorPrecedence(t)
        \/ SetParseAction(t)
        \/ AssignGrammar(t)
        \/ ReturnGrammar(t)

ThreadSpec == Init /\ [][ThreadNext]_vars
(***************************************************************************)
(* Vocabulary of the properties.                                           *)
(***************************************************************************)
Parsed == call.op = "parse" /\ pc \in {"get_dsl", "done", "again"}
Constructed == call.op = "Span" /\ pc \in {"get_dsl", "done", "again"}

IsWord(t) == t.typ = "word"
IsOperator(t) == t.typ \in {"AND", "OR", "NOT", "W/"}

\* precedence level of an operator token, tightest first
LevelOf(t) ==
    CASE t.typ = "AND" -> 1 [] t.typ = "NOT" -> 2 [] t.typ = "W/" -> 3 [] OTHER -> 4

\* a query without parentheses and phrases: words, with at most one operator
\* between two neighbouring words
Flat(q) ==
    /\ Len(q) >= 1
    /\ IsWord(q[1]) /\ IsWord(q[Len(q)])
    /\ \A i \in 1..Len(q) : IsWord(q[i]) \/ IsOperator(q[i])
    /\ \A i \in 1..(Len(q) - 1) : IsOperator(q[i]) => IsWord(q[i + 1])

\* the levels of the operators of a flat query, juxtaposition being an OR
LevelsIn(q) ==
    {LevelOf(q[i]) : i \in {j \in 1..Len(q) : IsOperator(q[j])}}
      \cup {4 : i \in {j \in 1..(Len(q) - 1) : IsWord(q[j]) /\ IsWord(q[j + 1])}}

\* the positions where a flat query splits at level lvl: an operator of that
\* level, or (level 4) a word followed directly by a word
SplitsAt(q, lvl) ==
    {i \in 1..Len(q) :
        \/ IsOperator(q[i]) /\ LevelOf(q[i]) = lvl
        \/ lvl = 4 /\ i < Len(q) /\ IsWord(q[i]) /\ IsWord(q[i + 1])}

Wrap(q) == IF Len(q) = 1 THEN q ELSE <<LPAR>> \o q \o <<RPAR>>

RECURSIVE Parenthesized(_, _)
\* a flat query with every operand of an operator of level lvl or looser put in
\* parentheses, following the precedence AND > NOT > W/N > OR
Parenthesized(q, lvl) ==
    IF lvl = 0 \/ Len(q) = 1 THEN q
    ELSE IF SplitsAt(q, lvl) = {} THEN Parenthesized(q, lvl - 1)
    ELSE LET k == CHOOSE i \in SplitsAt(q, lvl) : \A j \in SplitsAt(q, lvl) : i <= j
             explicit == IsOperator(q[k])
             left == SubSeq(q, 1, IF explicit THEN k - 1 ELSE k)
             right == SubSeq(q, k + 1, Len(q))
             rest == IF SplitsAt(right, lvl) = {}
                     THEN Wrap(Parenthesized(right, lvl - 1))
                     ELSE Parenthesized(right, lvl)
         IN  Wrap(Parenthesized(left, lvl - 1))
               \o (IF explicit THEN <<q[k]>> ELSE <<>>) \o rest

RECURSIVE NodesOf(_)
\* a node and all the nodes below it
NodesOf(node) ==
    IF IsBoolean(node)
    THEN {node} \cup UNION {NodesOf(node.terms[i]) : i \in 1..Len(node.terms)}
    ELSE {node}

\* C1: an un-parenthesized query that mixes operators parses to the same AST
\* as its fully parenthesized form under the precedence AND > NOT > W/N > OR.
C1_PrecedenceGrouping ==
    (Parsed /\ Flat(call.s) /\ Cardinality(LevelsIn(call.s)) >= 2)
        => tree = parse_to_terms(Parenthesized(call.s, TopLevel))

\* C2: every Boolean and every Span node of an AST returned by parse_to_terms
\* has at least two children.
C2_AtLeastTwoChildren ==
    (Parsed /\ tree.exc = "")
        => \A n \in NodesOf(tree.value) : IsBoolean(n) => Len(n.terms) >= 2

\* C3: every failure of parse or parse_to_terms is raised as the module's
\* ParseError; no other exception type escapes.
C3_SingleErrorKind ==
    Parsed => tree.exc \in {"", "ParseError"} /\ dsl.exc \in {"", "ParseError"}

\* an operand of a W/N operator is an AND group, a NOT group or another W/
\* group: formed by precedence in a flat query, or by parentheses
GroupUnderProximity(q) ==
    \/ /\ Flat(q)
       /\ \E k \in 1..Len(q) :
            /\ q[k].typ = "W/"
            /\ \/ k + 2 <= Len(q) /\ q[k + 2].typ \in {"AND", "NOT"}
               \/ k - 2 >= 1 /\ q[k - 2].typ \in {"AND", "NOT"}
    \/ \E k \in 1..(Len(q) - 5) :
            /\ q[k].typ = "W/" /\ k > 1 /\ IsWord(q[k - 1])
            /\ q[k + 1] = LPAR /\ IsWord(q[k + 2])
            /\ q[k + 3].typ \in {"AND", "NOT", "W/"}
            /\ IsWord(q[k + 4]) /\ q[k + 5] = RPAR /\ k + 5 = Len(q)

\* C4: a query in which an operand of W/N is an AND group, a NOT group or
\* another W/ group fails with ParseError, and no Span is produced.
C4_NoGroupUnderProximity ==
    (Parsed /\ GroupUnderProximity(call.s)) => tree.exc = "ParseError"

\* the Terms that are operands of a Span or stand in one of its OR operands
IsOrGroup(n) == n.kind = "Boolean" /\ n.operator = "OR"

RECURSIVE TermsUnder(_)
TermsUnder(terms) ==
    {terms[i] : i \in {j \in 1..Len(terms) : terms[j].kind = "Term"}}
      \cup UNION {TermsUnder(terms[i].terms) :
                    i \in {j \in 1..Len(terms) : IsOrGroup(terms[j])}}
FieldsUnder(terms) == {t.field : t \in {u \in TermsUnder(terms) : Truthy(u.field)}}
FieldsOfCall(args) ==
    FieldsUnder(args.terms) \cup (IF Truthy(args.field) THEN {args.field} ELSE {})

\* every operand is a Term or an OR group of Terms
SpanShape(terms) ==
    \A i \in 1..Len(terms) :
        \/ terms[i].kind = "Term"
        \/ /\ IsOrGroup(terms[i])
           /\ \A j \in 1..Len(terms[i].terms) : terms[i].terms[j].kind = "Term"

\* C5: constructing a Span fails with ParseError whenever its Terms (its
\* operands, the Terms of its OR operands, the field handed to it) carry two
\* different explicit fields, and does not fail on field grounds otherwise.
C5_SpanFieldConflict ==
    /\ Constructed =>
         /\ Cardinality(FieldsOfCall(call.args)) >= 2 => tree.exc = "ParseError"
         /\ (Cardinality(FieldsOfCall(call.args)) <= 1 /\ SpanShape(call.args.terms))
               => tree.exc = ""
    /\ (Parsed /\ Len(call.s) = 3 /\ IsWord(call.s[1]) /\ call.s[2].typ = "W/"
          /\ IsWord(call.s[3]))
         => (tree.exc = "ParseError"
               <=> (/\ call.s[1].field # "" /\ call.s[3].field # ""
                    /\ call.s[1].field # call.s[3].field))

C5_Witness ==
    /\ Constructed /\ pc = "done"
    /\ SpanShape(call.args.terms)
    /\ \E i \in 1..Len(call.args.terms) : IsOrGroup(call.args.terms[i])
    /\ Cardinality(FieldsUnder(call.args.terms)) = 2
    /\ tree.exc = "ParseError"

\* the fields of the leaf clauses of a compiled Span
LeafField(clause) ==
    IF clause.key = "span_term" THEN clause.val.key ELSE clause.val.val.val.key
NearClauses(query) ==
    IF query.key = "span_near" THEN <<query>> ELSE query.val.val
SpanLeafFields(query) ==
    UNION {{LeafField(NearClauses(query)[i].val.clauses[j]) :
              j \in 1..Len(NearClauses(query)[i].val.clauses)} :
           i \in 1..Len(NearClauses(query))}

PhraseSlopCall ==
    /\ Parsed /\ Len(call.s) = 1
    /\ call.s[1].typ = "quote" /\ call.s[1].n # <<>>

SpanBuilt == (Parsed \/ Constructed) /\ tree.exc = "" /\ tree.value.kind = "Span"

\* every Term under the Span has lost its field and every leaf clause is on
\* the field of the Span
SpanFieldScoped ==
    SpanBuilt =>
        /\ \A n \in NodesOf(tree.value) : n.kind = "Term" => n.field = None
        /\ pc = "done" => SpanLeafFields(dsl.value) \subseteq {qfield(tree.value)}

\* C6 as stated: the field of a Span is the one explicit field of the Terms
\* under it, or unset when none of them carries one.
C6_FieldFromDescendants ==
    /\ SpanFieldScoped
    /\ (Constructed /\ tree.exc = "") =>
         IF FieldsUnder(call.args.terms) = {} THEN ~Truthy(tree.value.field)
         ELSE FieldsUnder(call.args.terms) = {tree.value.field}
    /\ (PhraseSlopCall /\ tree.exc = "") =>
         IF FieldsUnder(parse_to_terms(call.s[1].body).value.terms) = {}
         THEN ~Truthy(tree.value.field)
         ELSE FieldsUnder(parse_to_terms(call.s[1].body).value.terms)
                = {tree.value.field}

\* C6 amended: the field of a Span is the one explicit field among the field
\* handed to its constructor and the fields of the Terms under it, or unset
\* when there is none; the Terms under it lose their field and every leaf
\* clause it compiles to is on the field of the Span (_all when unset).
C6_SpanFieldUnified ==
    /\ SpanFieldScoped
    /\ (Constructed /\ tree.exc = "") =>
         IF FieldsOfCall(call.args) = {} THEN ~Truthy(tree.value.field)
         ELSE FieldsOfCall(call.args) = {tree.value.field}
    /\ (PhraseSlopCall /\ tree.exc = "") =>
         LET under == FieldsUnder(parse_to_terms(call.s[1].body).value.terms)
             all == under \cup (IF call.s[1].field = "" THEN {}
                                ELSE {call.s[1].field})
         IN  IF all = {} THEN ~Truthy(tree.value.field)
             ELSE all = {tree.value.field}

C6_Witness ==
    /\ Parsed /\ pc = "done"
    /\ call.s = <<LPAR, xa, b, RPAR, W10, c>>
    /\ tree.exc = "" /\ tree.value.kind = "Span" /\ tree.value.field = "x"
    /\ Cardinality(TermsUnder(tree.value.terms)) = 3
    /\ SpanLeafFields(dsl.value) = {"x"}

\* C7: an OR operand of a Span may hold Terms only: an OR group inside an OR
\* operand makes the construction fail with ParseError, so the operands of
\* every Span that was built are Terms or OR groups of Terms.
C7_OneLevelOfOr ==
    /\ Constructed =>
         /\ (\E i \in 1..Len(call.args.terms) :
               /\ IsOrGroup(call.args.terms[i])
               /\ \E j \in 1..Len(call.args.terms[i].terms) :
                    IsBoolean(call.args.terms[i].terms[j]))
              => tree.exc = "ParseError"
         /\ (SpanShape(call.args.terms) /\ FieldsOfCall(call.args) = {})
              => tree.exc = ""
    /\ ((Parsed \/ Constructed) /\ tree.exc = "") =>
         \A n \in NodesOf(tree.value) : n.kind = "Span" => SpanShape(n.terms)

C7_Witness ==
    /\ Parsed /\ pc = "done"
    /\ call.s = <<a, W10, LPAR, b, tOR, LPAR, c, tOR, d, RPAR, RPAR>>
    /\ tree.exc = "ParseError"

RECURSIVE ProximityChain(_, _, _)
\* w1 W/N w2 ... W/N wn for the words of a phrase, the field prefix on w1
ProximityChain(words, field, n) ==
    IF Len(words) = 1 THEN <<Word(words[1].text, field)>>
    ELSE ProximityChain(ButLast(words), field, n)
           \o <<Prox(n), words[Len(words)]>>

PlainWords(body) ==
    /\ Len(body) >= 2
    /\ \A i \in 1..Len(body) : IsWord(body[i]) /\ body[i].field = ""

C9_PhraseSlopInOrder ==
    /\ (PhraseSlopCall /\ tree.exc = "") =>
         /\ tree.value.kind = "Span"
         /\ tree.value.slop = Unicode(call.s[1].n)
         /\ call.s[1].field # "" => tree.value.field = call.s[1].field
         /\ tree.value.in_order
    /\ (Parsed /\ tree.exc = "" /\ \A i \in 1..Len(call.s) : call.s[i].typ # "quote")
         => \A n \in NodesOf(tree.value) : n.kind = "Span" => ~n.in_order

\* C9 amended: a Span built from the phrase-slop shorthand has slop N, the
\* field of the phrase's prefix when it has one, and in_order = false, like
\* every Span built from W/N.
C9_PhraseSlopUnordered ==
    /\ (PhraseSlopCall /\ tree.exc = "") =>
         /\ tree.value.kind = "Span"
         /\ tree.value.slop = Unicode(call.s[1].n)
         /\ call.s[1].field # "" => tree.value.field = call.s[1].field
         /\ ~tree.value.in_order
    /\ (Parsed /\ tree.exc = "" /\ \A i \in 1..Len(call.s) : call.s[i].typ # "quote")
         => \A n \in NodesOf(tree.value) : n.kind = "Span" => ~n.in_order

C9_Witness ==
    /\ PhraseSlopCall /\ call.s[1].field = "x"
    /\ tree.exc = "" /\ tree.value.kind = "Span"
    /\ tree.value.slop = Unicode(<<"5">>) /\ tree.value.field = "x"
    /\ ~tree.value.in_order

\* the body holds one word, an AND, NOT, W/ or explicit OR, or a parenthesis
BodyNotAList(body) ==
    \/ Len(body) = 1 /\ IsWord(body[1])
    \/ \E i \in 1..Len(body) : IsOperator(body[i]) \/ body[i].typ \in {"(", ")"}

\* C10 as stated: the phrase-slop shorthand fails with ParseError whenever
\* the body is a single word, holds AND, NOT, W/ or an explicit OR, or holds
\* a parenthesized group.
C10_PhraseBodyRejected ==
    (PhraseSlopCall /\ BodyNotAList(call.s[1].body)) => tree.exc = "ParseError"

\* the body is one word, or words joined by one and the same explicit operator
OneOperatorBody(body) ==
    \/ Len(body) = 1 /\ IsWord(body[1])
    \/ /\ Len(body) >= 3 /\ Len(body) % 2 = 1
       /\ \A i \in 1..Len(body) :
            IF i % 2 = 1 THEN IsWord(body[i])
            ELSE IsOperator(body[i]) /\ body[i].typ = body[2].typ

\* C10 amended: the phrase-slop shorthand fails with ParseError whenever
\* parse_to_terms of the body returns a root that is not an OR node with
\* implicit = true, as for a single word or for words joined by AND, NOT,
\* W/ or OR; operands of that root may be parenthesized OR groups of words.
C10_PhraseBodyMustBeImplicitOr ==
    PhraseSlopCall =>
        LET clause == parse_to_terms(call.s[1].body)
        IN  /\ (clause.exc = "" /\ ~(IsOrGroup(clause.value) /\ clause.value.implicit))
               => tree.exc = "ParseError"
            /\ OneOperatorBody(call.s[1].body) => tree.exc = "ParseError"
            /\ call.s[1].body = <<a, LPAR, b, c, RPAR>> => tree.exc = ""

C10_Witness ==
    /\ PhraseSlopCall /\ pc = "done"
    /\ call.s[1].body = <<a, LPAR, b, tAND, c, RPAR>>
    /\ tree.exc = "ParseError"

\* a call parse(s) of one quoted phrase without ~N
PhraseCall ==
    /\ Parsed /\ Len(call.s) = 1
    /\ call.s[1].typ = "quote" /\ call.s[1].n = <<>>

\* the phrase's text holds a wildcard before its last character
InternalWildcard(body) == Contains(ButLast(JoinChars(body)), "*")

\* C11: a quoted phrase without ~N whose text holds a wildcard before its last
\* character parses to a Span over the phrase's words with slop 0,
\* in_order = true and the phrase's field; a phrase with no wildcard or only
\* a final one parses to a Quote.
C11_InternalWildcardSpan ==
    (PhraseCall /\ \A i \in 1..Len(call.s[1].body) : IsWord(call.s[1].body[i])) =>
        IF InternalWildcard(call.s[1].body)
        THEN /\ tree.exc = ""
             /\ tree.value.kind = "Span"
             /\ tree.value.slop = 0
             /\ tree.value.in_order
             /\ qfield(tree.value) = qfield(call.s[1])
             /\ Len(tree.value.terms) = Len(call.s[1].body)
        ELSE /\ tree.exc = ""
             /\ tree.value = Quote(JoinChars(call.s[1].body), call.s[1].field)

\* the words of a chain w1 op w2 op ... wn, in input order
WordsOf(q) == SelectSeq(q, IsWord)

\* x NOT y1 NOT ... NOT yk over words, k >= 1
NotChain(q) ==
    /\ Len(q) >= 3 /\ Len(q) % 2 = 1
    /\ \A i \in 1..Len(q) : IF i % 2 = 1 THEN IsWord(q[i]) ELSE q[i].typ = "NOT"

\* the clause a single word compiles to outside a Span
WordClause(w) ==
    Dict(IF Contains(Replace(w.text, "!", "*"), "*") THEN "wildcard" ELSE "term",
         Dict(IF w.field = "" THEN "_all" ELSE w.field, Replace(w.text, "!", "*")))

\* C12: a chain x NOT y1 NOT ... NOT yk (k >= 1) parses to one NOT node with
\* the children x, y1, ..., yk in input order, and compiles to a bool clause
\* whose must list holds exactly the compiled first child and whose must_not
\* list holds the compiled remaining children in order.
C12_NotChain ==
    (Parsed /\ NotChain(call.s)) =>
        LET ws == WordsOf(call.s)
        IN  /\ tree = Returned(Boolean("NOT",
                         [i \in 1..Len(ws) |-> Term(ws[i].text, ws[i].field)], FALSE))
            /\ pc = "done" =>
                 dsl = Returned(Dict("bool",
                         [must |-> <<WordClause(ws[1])>>,
                          must_not |-> [i \in 1..(Len(ws) - 1) |->
                                          WordClause(ws[i + 1])]]))

C12_Witness ==
    /\ Parsed /\ pc = "done" /\ NotChain(call.s) /\ Len(call.s) = 7
    /\ dsl.exc = "" /\ Len(dsl.value.val.must) = 1
    /\ Len(dsl.value.val.must_not) = 3

\* the number of fragments of an operand of a Span: one for a Term, one per
\* disjunct for an OR group
Disjuncts(child) == IF child.kind = "Term" THEN 1 ELSE Len(child.terms)

\* the fragment of the m-th disjunct of an operand, on the field of the Span
Fragment(child, m, field) ==
    IF child.kind = "Term" THEN get_clause(child, field)[1]
    ELSE get_clause(child.terms[m], field)[1]

RECURSIVE CountFrom(_, _)
\* the product of the disjunct counts of the operands from the j-th on
CountFrom(terms, j) ==
    IF j > Len(terms) THEN 1 ELSE Disjuncts(terms[j]) * CountFrom(terms, j + 1)

\* the disjunct of the j-th operand in the k-th tuple of the product, the last
\* operand varying fastest
DisjunctIn(terms, k, j) ==
    (((k - 1) \div CountFrom(terms, j + 1)) % Disjuncts(terms[j])) + 1

\* C13: a Span compiles to one span_near per tuple of the cartesian product
\* of its operands' fragment lists, each with the Span's slop and in_order and
\* one clause per operand in operand order; one tuple gives a bare span_near,
\* otherwise all are wrapped in one bool/should in product order, so there
\* are as many span_near clauses as the product of the disjunct counts.
C13_SpanProduct ==
    (SpanBuilt /\ pc = "done") =>
        LET span == tree.value
            count == CountFrom(span.terms, 1)
            nears == NearClauses(dsl.value)
        IN  /\ dsl.exc = ""
            /\ IF count = 1 THEN dsl.value.key = "span_near"
               ELSE dsl.value.key = "bool" /\ dsl.value.val.key = "should"
            /\ Len(nears) = count
            /\ \A k \in 1..count :
                 /\ nears[k].key = "span_near"
                 /\ nears[k].val.slop = span.slop
                 /\ nears[k].val.in_order = span.in_order
                 /\ Len(nears[k].val.clauses) = Len(span.terms)
                 /\ \A j \in 1..Len(span.terms) :
                      nears[k].val.clauses[j]
                        = Fragment(span.terms[j], DisjunctIn(span.terms, k, j),
                                   qfield(span))

C13_Witness ==
    /\ SpanBuilt /\ pc = "done"
    /\ Len(tree.value.terms) = 2
    /\ IsOrGroup(tree.value.terms[1]) /\ IsOrGroup(tree.value.terms[2])
    /\ tree.value.terms[1].terms[1] # tree.value.terms[1].terms[2]
    /\ tree.value.terms[2].terms[1] # tree.value.terms[2].terms[2]
    /\ dsl.value.key = "bool" /\ Len(dsl.value.val.val) = 4

\* the leaf clauses of a compiled Span
SpanLeaves(query) ==
    UNION {{NearClauses(query)[i].val.clauses[j] :
              j \in 1..Len(NearClauses(query)[i].val.clauses)} :
           i \in 1..Len(NearClauses(query))}

\* C14: inside a Span every Term whose text contains a wildcard * at any
\* position compiles to the prefix fragment (span_multi), every Term without
\* a wildcard to an exact span_term, and no span_term carries a text that
\* contains *.
C14_WildcardIsPrefix ==
    (SpanBuilt /\ pc = "done" /\ dsl.exc = "") =>
        /\ \A leaf \in SpanLeaves(dsl.value) :
             leaf.key = "span_term" => ~Contains(leaf.val.val, "*")
        /\ (\A j \in 1..Len(tree.value.terms) : tree.value.terms[j].kind = "Term")
             => \A j \in 1..Len(tree.value.terms) :
                  dsl.value.val.clauses[j].key
                    = IF Contains(tree.value.terms[j].text, "*")
                      THEN "span_multi" ELSE "span_term"

\* a call parse(s) of a W/N b or of "a b"~N over plain words, and its N
TwoWordProximity ==
    /\ Parsed
    /\ \/ /\ Len(call.s) = 3 /\ call.s[2].typ = "W/"
          /\ IsWord(call.s[1]) /\ IsWord(call.s[3])
          /\ call.s[1].field = "" /\ call.s[3].field = ""
       \/ /\ PhraseSlopCall /\ PlainWords(call.s[1].body)
          /\ Len(call.s[1].body) = 2 /\ call.s[1].field = ""

WrittenSlop == IF Len(call.s) = 3 THEN call.s[2].n ELSE call.s[1].n

\* C15 as stated: the slop of the Span, and the slop of the span_near clause
\* emitted for a W/N b or "a b"~N, is the non-negative integer N written in
\* the query, an integer and not the digit string.
C15_SlopIsInteger ==
    TwoWordProximity =>
        /\ tree.exc = ""
        /\ tree.value.slop.kind = "int"
        /\ tree.value.slop.value = ToInt(WrittenSlop)
        /\ pc = "done" => dsl.value.val.slop = tree.value.slop

\* C15 amended: the slop of the Span, and the slop of the span_near clause
\* emitted for a W/N b or "a b"~N, is the string of digits N exactly as
\* written in the query; it is not converted to an integer.
C15_SlopIsDigitString ==
    /\ TwoWordProximity =>
         /\ tree.exc = ""
         /\ tree.value.kind = "Span"
         /\ tree.value.slop = Unicode(WrittenSlop)
         /\ pc = "done" =>
              /\ dsl.value.key = "span_near"
              /\ dsl.value.val.slop = Unicode(WrittenSlop)
    /\ (Parsed /\ tree.exc = "") =>
         \A n \in NodesOf(tree.value) : n.kind = "Span" => n.slop.kind = "unicode"

C15_Witness ==
    /\ TwoWordProximity /\ pc = "done"
    /\ WrittenSlop = <<"0", "5">>
    /\ Len(call.s) = 3
    /\ dsl.exc = "" /\ dsl.value.val.slop = Unicode(<<"0", "5">>)

\* C16: for every input on which parse_to_terms returns an AST, compiling
\* that AST with get_dsl returns a query object and never raises.
C16_CompilationNeverFails ==
    (Parsed /\ pc = "done" /\ tree.exc = "") => dsl.exc = ""

\* a query w1 W/N w2 over words, with or without field prefixes
WordProximity(q) ==
    Len(q) = 3 /\ IsWord(q[1]) /\ q[2].typ = "W/" /\ IsWord(q[3])

\* C17: an AST node is never modified after its construction.  The operands
\* of a Span are the very objects handed to its constructor (Boolean.__init__
\* keeps the list), so they are still as the caller built them, and the Terms
\* of a parsed w1 W/N w2 are still as get_term built them.
C17_NodesImmutable ==
    /\ (Constructed /\ tree.exc = "") => tree.value.terms = call.args.terms
    /\ (Parsed /\ WordProximity(call.s) /\ tree.exc = "") =>
         tree.value.terms = <<get_term(call.s[1]).value, get_term(call.s[3]).value>>

\* w1 op w2 op ... wn over plain words with one and the same operator (AND,
\* OR, W/N, or juxtaposition) between every two words
OneOperatorChain(q) ==
    /\ Flat(q) /\ Len(WordsOf(q)) >= 2
    /\ \A i \in 1..Len(q) : IsWord(q[i]) => q[i].field = ""
    /\ \/ \A i \in 1..Len(q) : IsWord(q[i])
       \/ /\ Len(q) % 2 = 1
          /\ \A i \in 1..Len(q) :
               i % 2 = 0 => q[i] = q[2] /\ q[i].typ \in {"AND", "OR", "W/"}

\* the span fragment a single word compiles to inside a Span without field
WordSpanClause(w) == get_clause(Term(w.text, None), "_all")[1]

Builders == {t \in Threads : heap[t].boolean_expr}

\* C19: when several threads call get_grammar while the grammar has not been
\* built yet, the grammar is built at most once: no interleaving lets two
\* callers both construct a grammar object.
C19_BuiltAtMostOnce == Cardinality(Builders) <= 1

\* a grammar object with all its rules and both parse actions installed
Complete(g) ==
    /\ heap[g].fterm /\ heap[g].get_term
    /\ heap[g].boolean_expr /\ heap[g].get_boolean_or_term

\* C20: under any interleaving of get_grammar callers, _grammar is unset or
\* refers to a grammar whose rules and parse actions are all installed, and
\* no caller obtains a partially built grammar.
C20_NeverPartial ==
    /\ grammar # None => Complete(grammar)
    /\ \A t \in Threads :
         /\ tpc[t] = "returned" => got[t] # None
         /\ got[t] # None => Complete(got[t])

C20_Witness ==
    \E t \in Threads, u \in Threads :
        /\ t # u
        /\ tpc[t] = "returned" /\ got[t] # None /\ Complete(got[t])
        /\ tpc[u] = "boolean_expr.setParseAction"
        /\ heap[u].boolean_expr /\ ~heap[u].get_boolean_or_term

\* two or more bare words
BareWords(q) ==
    Len(q) >= 2 /\ \A i \in 1..Len(q) : IsWord(q[i]) /\ q[i].field = ""

\* w1 OR w2 OR ... OR wn over bare words
OrChain(q) ==
    /\ Len(q) >= 3 /\ Len(q) % 2 = 1
    /\ \A i \in 1..Len(q) :
         IF i % 2 = 1 THEN IsWord(q[i]) /\ q[i].field = "" ELSE q[i].typ = "OR"

\* the Terms of the words of a query, as written
TermsOfWords(q) ==
    [i \in 1..Len(WordsOf(q)) |-> Term(WordsOf(q)[i].text, WordsOf(q)[i].field)]

TermCall == Parsed /\ Len(call.s) = 1 /\ IsWord(call.s[1])

\* C22: a Term compiles to an exact term clause on (field, text) when its
\* text has no * and to a wildcard clause when it has one; ! is replaced by *
\* when the Term is built, so a! and a* give the same Term and the same
\* query; a Term without field prefix compiles on _all, a Term x:a on x.
C22_TermCompiles ==
    TermCall =>
        LET w == call.s[1]
            starred == Word(Replace(w.text, "!", "*"), w.field)
        IN  /\ tree.exc = "" /\ tree.value.kind = "Term"
            /\ tree.value.text = starred.text
            /\ ~Contains(tree.value.text, "!")
            /\ tree = parse_to_terms(<<starred>>)
            /\ pc = "done" =>
                 /\ dsl.exc = ""
                 /\ dsl.value.key
                      = IF Contains(w.text, "*") \/ Contains(w.text, "!")
                        THEN "wildcard" ELSE "term"
                 /\ dsl.value.val
                      = Dict(IF w.field = "" THEN "_all" ELSE w.field, starred.text)
                 /\ dsl = parse(<<starred>>)

C22_Witness ==
    /\ TermCall /\ pc = "done"
    /\ call.s[1] = Word(<<"a", "!">>, "x")
    /\ dsl = Returned(Dict("wildcard", Dict("x", <<"a", "*">>)))

\* the text of a phrase as the Quote keeps it
PhraseText(p) == Replace(JoinChars(p.body), "!", "*")

\* C23: a Quote compiles to a match_phrase clause on (field, phrase text),
\* unless the phrase's last word ends in *: then it compiles to a
\* match_phrase_prefix clause on the text without that *; the field is _all
\* when the phrase has no field prefix.
C23_QuoteCompiles ==
    (PhraseCall /\ tree.exc = "") =>
        LET p == call.s[1]
            fld == IF p.field = "" THEN "_all" ELSE p.field
        IN  /\ tree.value.kind = "Quote"
            /\ tree.value.text = PhraseText(p)
            /\ pc = "done" =>
                 dsl = Returned(
                         IF EndsWith(PhraseText(p), "*")
                         THEN Dict("match_phrase_prefix",
                                   Dict(fld, ButLast(PhraseText(p))))
                         ELSE Dict("match_phrase", Dict(fld, PhraseText(p))))

C23_Witness ==
    /\ PhraseCall /\ pc = "done"
    /\ call.s[1].field = "x" /\ Len(call.s[1].body) = 2
    /\ IsWord(call.s[1].body[1]) /\ IsWord(call.s[1].body[2])
    /\ tree.exc = "" /\ tree.value.kind = "Quote"
    /\ dsl.exc = "" /\ dsl.value.key = "match_phrase_prefix"
    /\ dsl.value.val.key = "x"
    /\ ~EndsWith(dsl.value.val.val, "*")

\* the root of the AST is an AND or an OR node
BooleanRoot(op) ==
    /\ Parsed /\ tree.exc = ""
    /\ tree.value.kind = "Boolean" /\ tree.value.operator = op

\* the compiled children of a node, one for one in child order
CompiledChildren(node) == [i \in 1..Len(node.terms) |-> get_dsl(node.terms[i]).value]
ChildrenCompile(node) == \A i \in 1..Len(node.terms) : get_dsl(node.terms[i]).exc = ""

\* C24: a Boolean AND node compiles to {"bool": {"must": [...]}} and a
\* Boolean OR node to {"bool": {"should": [...]}}, the list holding the
\* compiled children one for one in child order; a AND b compiles to a must
\* of the two exact-term clauses on _all.
C24_BooleanCompiles ==
    /\ (BooleanRoot("AND") /\ pc = "done" /\ ChildrenCompile(tree.value)) =>
         dsl = Returned(Dict("bool", Dict("must", CompiledChildren(tree.value))))
    /\ (BooleanRoot("OR") /\ pc = "done" /\ ChildrenCompile(tree.value)) =>
         dsl = Returned(Dict("bool", Dict("should", CompiledChildren(tree.value))))
    /\ (Parsed /\ pc = "done" /\ call.s = <<a, tAND, b>>) =>
         dsl = Returned(Dict("bool", Dict("must",
                  <<Dict("term", Dict("_all", <<"a">>)),
                    Dict("term", Dict("_all", <<"b">>))>>)))

C24_Witness ==
    /\ BooleanRoot("AND") /\ pc = "done"
    /\ call.s = <<a, tAND, LPAR, b, c, RPAR>>
    /\ dsl.exc = "" /\ dsl.value.val.key = "must"
    /\ dsl.value.val.val[1] = Dict("term", Dict("_all", <<"a">>))
    /\ dsl.value.val.val[2].val.key = "should"

\* what the call in progress gives its caller
Outcome == IF tree.exc # "" THEN tree ELSE dsl

SameResult(r1, r2) == r1.exc = r2.exc /\ (r1.exc = "" => r1.value = r2.value)

RECURSIVE LeafTexts(_)
\* the texts of the leaves (Term, Quote, Term inside a Span) of an AST, left
\* to right
LeafTexts(node) ==
    IF IsBoolean(node)
    THEN LET RECURSIVE Concat(_)
             Concat(i) == IF i > Len(node.terms) THEN <<>>
                          ELSE LeafTexts(node.terms[i]) \o Concat(i + 1)
         IN  Concat(1)
    ELSE <<node.text>>

\* C26: no operand is silently lost: for every input that parse_to_terms
\* accepts, every word written in the input appears as a leaf of the returned
\* AST, in input order.
C26_NoOperandLost ==
    (Parsed /\ tree.exc = "" /\ Flat(call.s)) =>
        LeafTexts(tree.value)
          = [i \in 1..Len(WordsOf(call.s)) |->
               Replace(WordsOf(call.s)[i].text, "!", "*")]

\* t1 W/n1 t2 W/n2 ... W/nk tk+1 over plain words, k >= 2
ProxChain(q) ==
    /\ Len(q) >= 5 /\ Len(q) % 2 = 1
    /\ \A i \in 1..Len(q) :
         IF i % 2 = 1 THEN IsWord(q[i]) /\ q[i].field = "" ELSE q[i].typ = "W/"

\* the chain with every operator replaced by its last one
WithLastSlop(q) ==
    [i \in 1..Len(q) |-> IF i % 2 = 1 THEN q[i] ELSE q[Len(q) - 1]]

\* C27: a chain of proximity operators at one level builds a single Span
\* over all its operands whose slop is the number of the last operator; the
\* earlier numbers do not affect the result.
C27_LastSlopWins ==
    (Parsed /\ ProxChain(call.s)) =>
        /\ tree.exc = ""
        /\ tree.value.kind = "Span"
        /\ LeafTexts(tree.value) = [i \in 1..Len(WordsOf(call.s)) |-> WordsOf(call.s)[i].text]
        /\ \A i \in 1..Len(tree.value.terms) : tree.value.terms[i].kind = "Term"
        /\ tree.value.slop = Unicode(call.s[Len(call.s) - 1].n)
        /\ tree = parse_to_terms(WithLastSlop(call.s))
        /\ pc = "done" => dsl = parse(WithLastSlop(call.s))

C27_Witness ==
    /\ Parsed /\ pc = "done" /\ ProxChain(call.s) /\ Len(call.s) = 7
    /\ call.s[2] = W1 /\ call.s[4] = W1 /\ call.s[6] = W2
    /\ tree.exc = "" /\ tree.value.slop = Unicode(<<"2">>)
    /\ Len(tree.value.terms) = 4
    /\ dsl.exc = "" /\ dsl.value.val.slop = Unicode(<<"2">>)

\* words joined by OR or by juxtaposition, with at least one of each
MixedOrChain(q) ==
    /\ Flat(q)
    /\ \A i \in 1..Len(q) : IsWord(q[i]) => q[i].field = ""
    /\ LevelsIn(q) = {4}
    /\ \E i \in 1..Len(q) : q[i].typ = "OR"
    /\ \E i \in 1..(Len(q) - 1) : IsWord(q[i]) /\ IsWord(q[i + 1])

\* the last operator of the chain is a juxtaposition
EndsImplicit(q) == IsWord(q[Len(q) - 1])

\* C28: for a disjunction chain that mixes OR and juxtaposition at one
\* level, the implicit flag of the OR node is decided by the last operator
\* of the chain alone (a OR b c: true, a b OR c: false), so the phrase-slop
\* shorthand accepts the first kind of body and rejects the second.
C28_LastOperatorDecidesImplicit ==
    /\ (Parsed /\ MixedOrChain(call.s)) =>
         tree = Returned(Boolean("OR", TermsOfWords(call.s), EndsImplicit(call.s)))
    /\ (PhraseSlopCall /\ MixedOrChain(call.s[1].body)) =>
         IF EndsImplicit(call.s[1].body)
         THEN /\ tree.exc = "" /\ tree.value.kind = "Span"
              /\ LeafTexts(tree.value)
                   = [i \in 1..Len(WordsOf(call.s[1].body)) |->
                        WordsOf(call.s[1].body)[i].text]
         ELSE tree.exc = "ParseError"

C28_Witness ==
    /\ PhraseSlopCall /\ pc = "done"
    /\ call.s[1].body = <<a, tOR, b, c>>
    /\ tree.exc = "" /\ tree.value.kind = "Span" /\ Len(tree.value.terms) = 3
    /\ parse_to_terms(<<Phrase(<<a, b, tOR, c>>, "", <<"5">>)>>).exc = "ParseError"
    /\ parse_to_terms(<<a, b, tOR, c>>).value.implicit = FALSE

IsQuoteToken(t) == t.typ = "quote" /\ t.n = <<>>

\* an OR group in parentheses, of words and at least one phrase, from i to j
QuoteOrGroup(q, i, j) ==
    /\ i >= 1 /\ j <= Len(q) /\ j >= i + 3
    /\ q[i] = LPAR /\ q[j] = RPAR
    /\ \A k \in (i + 1)..(j - 1) : IsWord(q[k]) \/ IsQuoteToken(q[k]) \/ q[k].typ = "OR"
    /\ \E k \in (i + 1)..(j - 1) : IsQuoteToken(q[k])
    /\ ~IsOperator(q[i + 1]) /\ ~IsOperator(q[j - 1])

\* a chain of W/N whose operands are words, phrases and such OR groups, one
\* of them being a phrase or holding one
QuoteUnderProximity(q) ==
    \/ /\ Len(q) >= 3 /\ Len(q) % 2 = 1
       /\ \A i \in 1..Len(q) :
            IF i % 2 = 1 THEN IsWord(q[i]) \/ IsQuoteToken(q[i]) ELSE q[i].typ = "W/"
       /\ \E i \in 1..Len(q) : IsQuoteToken(q[i])
    \/ \E j \in 4..(Len(q) - 2) :
         /\ QuoteOrGroup(q, 1, j)
         /\ q[j + 1].typ = "W/" /\ j + 2 = Len(q) /\ IsWord(q[j + 2])
    \/ \E i \in 3..(Len(q) - 3) :
         /\ QuoteOrGroup(q, i, Len(q))
         /\ q[i - 1].typ = "W/" /\ i = 3 /\ IsWord(q[1])

\* C29: a quoted phrase can never be an operand of a proximity query: a W/N
\* expression with a Quote as direct operand or inside an OR-group operand
\* fails with ParseError, and so does constructing a Span over a Quote.
C29_NoQuoteUnderProximity ==
    /\ (Parsed /\ QuoteUnderProximity(call.s)) => tree.exc = "ParseError"
    /\ (Constructed /\ \E i \in 1..Len(call.args.terms) :
                          call.args.terms[i].kind = "Quote")
         => tree.exc = "ParseError"

C29_Witness ==
    /\ Parsed /\ pc = "done"
    /\ call.s = <<LPAR, Phrase(<<a, b>>, "", <<>>), c, RPAR, W10, d>>
    /\ QuoteUnderProximity(call.s)
    /\ tree.exc = "ParseError"

\* the query is an expression in one pair of parentheses
Inner(q) == SubSeq(q, 2, Len(q) - 1)
InRedundantParens(q) ==
    /\ Len(q) >= 3 /\ q[1] = LPAR /\ q[Len(q)] = RPAR
    /\ parse_to_terms(Inner(q)).exc = ""

\* C30: redundant parentheses do not change the result: for every
\* expression e that parses, (e) and ((e)) parse to the same AST as e, and a
\* single term in parentheses is returned as the bare Term.
C30_RedundantParentheses ==
    /\ (Parsed /\ InRedundantParens(call.s)) =>
         /\ tree = parse_to_terms(Inner(call.s))
         /\ InRedundantParens(Inner(call.s))
              => tree = parse_to_terms(Inner(Inner(call.s)))
         /\ pc = "done" => dsl = parse(Inner(call.s))
    /\ (Parsed /\ Len(call.s) \in {3, 5} /\ IsWord(call.s[(Len(call.s) + 1) \div 2])
          /\ \A i \in 1..Len(call.s) :
               /\ i < (Len(call.s) + 1) \div 2 => call.s[i] = LPAR
               /\ i > (Len(call.s) + 1) \div 2 => call.s[i] = RPAR)
         => tree = Returned(Term(call.s[(Len(call.s) + 1) \div 2].text,
                                 call.s[(Len(call.s) + 1) \div 2].field))

C30_Witness ==
    /\ Parsed /\ pc = "done"
    /\ call.s = InParens(InParens(<<a, tAND, xa>>))
    /\ InRedundantParens(call.s) /\ InRedundantParens(Inner(call.s))
    /\ tree = parse_to_terms(<<a, tAND, xa>>)
    /\ tree.exc = "" /\ tree.value.operator = "AND" /\ Len(tree.value.terms) = 2
    /\ parse_to_terms(<<LPAR, LPAR, a, RPAR, RPAR>>) = Returned(Term(<<"a">>, ""))

====
